---- MODULE Spec2Model ----
(***************************************************************************)
(* Question generation and grading engine of quiz-planner-backend.         *)
(*                                                                         *)
(*   backend/ai/question_generator.py     QuestionGenerator                *)
(*   backend/controllers/quiz_controller.py   generate_quiz,               *)
(*                                            submit_quiz_attempt          *)
(*                                                                         *)
(* Python values are tagged records [t, v]; a Python str is a TLA+ string, *)
(* a Python list is a sequence, a dict is a record plus the set of keys it *)
(* holds.  A raised exception is an outcome [ok |-> FALSE, err |-> name].  *)
(***************************************************************************)
EXTENDS Integers, Sequences, FiniteSets, TLC

VARIABLES
    apiKey,          \* Config.GEMINI_API_KEY
    pc,              \* position of the running generate_questions call
    content,         \* argument content, as its whitespace separated tokens
    num_questions,   \* argument num_questions
    question_types,  \* argument question_types
    response,        \* what the remote endpoint answered to requests.post
    remoteOutcome,   \* how the remote tier ended in this call
    remoteCalls,     \* calls of _generate_with_gemini in this call
    fallbackCalls,   \* calls of _generate_fallback_questions in this call
    result,          \* what generate_questions returned or raised
    fb_concepts,     \* key_concepts of _generate_fallback_questions
    fb_questions,    \* questions of _generate_fallback_questions
    study_materials, \* db.study_materials
    quizzes,         \* db.quizzes
    quiz_attempts,   \* db.quiz_attempts, in insertion order
    nextId,          \* the next ObjectId the store hands out
    http,            \* the response of the last request handled
    inflight,        \* submit_quiz_attempt requests between find_one and insert_one
    generating,      \* the generate_quiz request that waits for its questions
    deleting,        \* delete_quiz requests between delete_one and delete_many
    args,            \* the arguments of the calls of one function taken alone
    outs             \* what these calls returned or raised, in call order

genVars == <<pc, content, num_questions, question_types, response,
             remoteOutcome, remoteCalls, fallbackCalls, result,
             fb_concepts, fb_questions>>

storeVars == <<study_materials, quizzes, quiz_attempts, nextId, http, inflight,
               generating, deleting>>

fnVars == <<args, outs>>

vars == <<apiKey, genVars, storeVars, fnVars>>

----------------------------------------------------------------------------
(* Bounds of the model *)

MaxQuestions == 2
MaxTypes == 2

----------------------------------------------------------------------------
(* Python values *)

Str(s) == [t |-> "str", v |-> s]
Bool(b) == [t |-> "bool", v |-> IF b THEN "True" ELSE "False"]
Num(s) == [t |-> "int", v |-> s]
NoneVal == [t |-> "none", v |-> "None"]

Min(a, b) == IF a < b THEN a ELSE b
Max(a, b) == IF a > b THEN a ELSE b

\* s[a:b] of Python, a and b possibly negative, on a sequence
PySlice(s, a, b) ==
    LET n == Len(s)
        lo == IF a < 0 THEN Max(n + a, 0) ELSE Min(a, n)
        hi == IF b < 0 THEN Max(n + b, 0) ELSE Min(b, n)
    IN  IF lo < hi THEN SubSeq(s, lo + 1, hi) ELSE <<>>

NoGrade == [score |-> 0, total_questions |-> 0,
            percentage |-> [num |-> 0, den |-> 1], results |-> <<>>]

\* a response: its status, its error text, and the grading it carries
Http(status, error, grade) == [status |-> status, error |-> error, grade |-> grade]

Raise(e) == [ok |-> FALSE, err |-> e, val |-> <<>>]
Return(v) == [ok |-> TRUE, err |-> "", val |-> v]
NoResult == [ok |-> FALSE, err |-> "pending", val |-> <<>>]

\* no generate_quiz request is waiting for questions
NoRequest == [active |-> FALSE, user_id |-> "", material_id |-> 0]

\* no function is called alone
NoArgs == [fn |-> "", text |-> <<>>, num_concepts |-> 0, key_concepts |-> <<>>,
           num_questions |-> 0, question_types |-> <<>>]

\* str.lower() leaving every string as it is
Lower_Mut(s) == s

\* str.lower() on the strings of the model
Lower(s) ==
    CASE s = "Cell" -> "cell"
      [] s = "Cell," -> "cell,"
      [] s = "The" -> "the"
      [] s = "DNA" -> "dna"
      [] s = "TRUE" -> "true"
      [] s = "True" -> "true"
      [] s = "False" -> "false"
      [] s = "Paris" -> "paris"
      [] s = " Paris " -> " paris "
      [] s = "Rome" -> "rome"
      [] OTHER -> s

\* str.strip() leaving every string as it is
Strip_Mut(s) == s

\* str.strip() on the strings of the model
Strip(s) ==
    CASE s = " paris " -> "paris"
      [] s = " Paris " -> "Paris"
      [] OTHER -> s

\* re.sub(r'[^\w\s]', '', s) on the tokens of the model
StripPunct(s) ==
    CASE s = "cell," -> "cell"
      [] s = "!!" -> ""
      [] OTHER -> s

----------------------------------------------------------------------------
(* extract_key_concepts *)

NumConceptsDefault == 10

stopwords ==
    {"the", "a", "an", "and", "in", "on", "at", "to", "for", "of", "with",
     "is", "are", "am", "was", "were", "be", "been", "being", "by", "that",
     "this", "these", "those", "it", "its", "as", "from", "has", "have",
     "had", "not", "or", "but", "if", "then", "else", "when", "where", "how"}

\* text.lower(), re.sub, text.split(): the words of the text
Words(text) ==
    SelectSeq([i \in 1..Len(text) |-> StripPunct(Lower(text[i]))],
              LAMBDA w : w # "")

FilteredWords(text) ==
    SelectSeq(Words(text), LAMBDA w : w \notin stopwords /\ Len(w) > 3)

\* word_counts[w]
WordCount(ws, w) == Cardinality({i \in 1..Len(ws) : ws[i] = w})

\* the keys of word_counts, in insertion order (first occurrence)
RECURSIVE CountKeys(_)
CountKeys(ws) ==
    IF ws = <<>> THEN <<>>
    ELSE LET init == CountKeys(SubSeq(ws, 1, Len(ws) - 1))
             w == ws[Len(ws)]
         IN  IF \E i \in 1..Len(init) : init[i] = w THEN init
             ELSE Append(init, w)

\* sorted(..., key=count, reverse=True): stable, so equal counts keep the
\* insertion order
RECURSIVE SortedByCount(_, _)
SortedByCount(keys, ws) ==
    IF keys = <<>> THEN <<>>
    ELSE LET init == SortedByCount(SubSeq(keys, 1, Len(keys) - 1), ws)
             w == keys[Len(keys)]
             before == SelectSeq(init, LAMBDA x : WordCount(ws, x) >= WordCount(ws, w))
             after == SelectSeq(init, LAMBDA x : WordCount(ws, x) < WordCount(ws, w))
         IN  before \o <<w>> \o after

\* extract_key_concepts without the sort by count
extract_key_concepts_Mut(text, num_concepts) ==
    PySlice(CountKeys(FilteredWords(text)), 0, num_concepts)

extract_key_concepts(text, num_concepts) ==
    LET filtered_words == FilteredWords(text)
        sorted_words == SortedByCount(CountKeys(filtered_words), filtered_words)
    IN  PySlice(sorted_words, 0, num_concepts)

----------------------------------------------------------------------------
(* Question dicts.  has is the set of keys of the dict; a field whose key  *)
(* is not in has carries no value.  kind tells a dict from another JSON    *)
(* value that a parsed array may hold.                                     *)

AllKeys == {"type", "question", "options", "correct_answer", "explanation"}

Dict(type, question, options, correct_answer, explanation, has) ==
    [kind |-> "dict", has |-> has, type |-> type, question |-> question,
     options |-> options, correct_answer |-> correct_answer,
     explanation |-> explanation]

\* a JSON number in the place of a question
IntElem == [Dict("", "", <<>>, NoneVal, "", {}) EXCEPT !.kind = "int"]

----------------------------------------------------------------------------
(* _generate_fallback_questions *)

Perms4 == {p \in [1..4 -> 1..4] : \A a, b \in 1..4 : a # b => p[a] # p[b]}

\* the 0-based indices whose question is multiple_choice: the ones shuffled
McIndices(n, types) ==
    {i \in 0..(n - 1) : types[(i % Len(types)) + 1] = "multiple_choice"}

\* the outcomes of random.shuffle, one permutation per shuffled list
Shuffles(n, types) == [McIndices(n, types) -> Perms4]

\* key_concepts after lines 133-134
Duplicated(key_concepts) ==
    IF Len(key_concepts) < 4
    THEN key_concepts \o key_concepts \o key_concepts \o key_concepts
    ELSE key_concepts

\* question_types[i % len(question_types)]
TypeAt(types, i) == types[(i % Len(types)) + 1]

\* ConceptAt with the index off by one
ConceptAt_Mut(kc, i) == kc[((i + 1) % Len(kc)) + 1]

\* key_concepts[i % len(key_concepts)]
ConceptAt(kc, i) == kc[(i % Len(kc)) + 1]

\* FallbackQuestion taking as correct_answer the option shuffled to the front
FallbackQuestion_Mut(kc, types, i, perm) ==
    LET q_type == TypeAt(types, i)
        concept == ConceptAt(kc, i)
        options == <<concept>> \o
                   [j \in 1..3 |-> kc[((i + (j - 1) + 1) % Len(kc)) + 1]]
    IN  IF q_type = "multiple_choice"
        THEN Dict("multiple_choice",
                  "Which of these is most relevant to the study material?",
                  [j \in 1..4 |-> options[perm[j]]],
                  Str(options[perm[1]]),
                  concept \o " was identified as a key concept in the material.",
                  AllKeys)
        ELSE IF q_type = "true_false"
        THEN Dict("true_false",
                  "The concept '" \o concept \o "' is important in this context.",
                  <<>>,
                  Bool(TRUE),
                  "The material specifically mentions '" \o concept \o "' as important.",
                  AllKeys \ {"options"})
        ELSE Dict("short_answer",
                  "Explain the significance of '" \o concept \o "' in this context.",
                  <<>>,
                  Str(concept \o " is a key concept that..."),
                  "A good answer would explain how " \o concept \o " relates to the main topic.",
                  AllKeys \ {"options"})

\* FallbackQuestion writing a false statement at every other index
FallbackQuestion_MutFalse(kc, types, i, perm) ==
    LET q_type == TypeAt(types, i)
        concept == ConceptAt(kc, i)
        options == <<concept>> \o
                   [j \in 1..3 |-> kc[((i + (j - 1) + 1) % Len(kc)) + 1]]
    IN  IF q_type = "multiple_choice"
        THEN Dict("multiple_choice",
                  "Which of these is most relevant to the study material?",
                  [j \in 1..4 |-> options[perm[j]]],
                  Str(concept),
                  concept \o " was identified as a key concept in the material.",
                  AllKeys)
        ELSE IF q_type = "true_false"
        THEN Dict("true_false",
                  "The concept '" \o concept \o "' is important in this context.",
                  <<>>,
                  Bool(i % 2 = 0),
                  "The material specifically mentions '" \o concept \o "' as important.",
                  AllKeys \ {"options"})
        ELSE Dict("short_answer",
                  "Explain the significance of '" \o concept \o "' in this context.",
                  <<>>,
                  Str(concept \o " is a key concept that..."),
                  "A good answer would explain how " \o concept \o " relates to the main topic.",
                  AllKeys \ {"options"})

\* the body of the loop for index i; kc is the list after duplication
FallbackQuestion(kc, types, i, perm) ==
    LET q_type == TypeAt(types, i)
        concept == ConceptAt(kc, i)
        options == <<concept>> \o
                   [j \in 1..3 |-> kc[((i + (j - 1) + 1) % Len(kc)) + 1]]
    IN  IF q_type = "multiple_choice"
        THEN Dict("multiple_choice",
                  "Which of these is most relevant to the study material?",
                  [j \in 1..4 |-> options[perm[j]]],
                  Str(concept),
                  concept \o " was identified as a key concept in the material.",
                  AllKeys)
        ELSE IF q_type = "true_false"
        THEN Dict("true_false",
                  "The concept '" \o concept \o "' is important in this context.",
                  <<>>,
                  Bool(TRUE),
                  "The material specifically mentions '" \o concept \o "' as important.",
                  AllKeys \ {"options"})
        ELSE Dict("short_answer",
                  "Explain the significance of '" \o concept \o "' in this context.",
                  <<>>,
                  Str(concept \o " is a key concept that..."),
                  "A good answer would explain how " \o concept \o " relates to the main topic.",
                  AllKeys \ {"options"})

\* shuf gives the permutation random.shuffle applies at each shuffled index
generate_fallback_questions(key_concepts, n, types, shuf) ==
    LET kc == Duplicated(key_concepts)
    IN  IF n >= 1 /\ Len(types) = 0 THEN Raise("ZeroDivisionError")
        ELSE IF n >= 1 /\ Len(kc) = 0 THEN Raise("ZeroDivisionError")
        ELSE Return([k \in 1..n |->
                        FallbackQuestion(kc, types, k - 1,
                            IF (k - 1) \in DOMAIN shuf THEN shuf[k - 1]
                            ELSE [j \in 1..4 |-> j])])

----------------------------------------------------------------------------
(* _generate_with_gemini.  The generated text is a sequence of tokens: a   *)
(* run of prose, the character '[', the character ']', or one JSON value   *)
(* of an array (its separating commas are not written).  The texts of the  *)
(* model hold no array nested in an array.                                 *)

Prose == [k |-> "prose", q |-> IntElem]
LB == [k |-> "lb", q |-> IntElem]
RB == [k |-> "rb", q |-> IntElem]
Val(q) == [k |-> "val", q |-> q]

\* generated_text.find('['): 0-based index of the first '[', or -1
Find(text, k) ==
    IF \E i \in 1..Len(text) : text[i].k = k
    THEN (CHOOSE i \in 1..Len(text) :
             text[i].k = k /\ \A j \in 1..(i - 1) : text[j].k # k) - 1
    ELSE -1

\* generated_text.rfind(']'): 0-based index of the last ']', or -1
RFind(text, k) ==
    IF \E i \in 1..Len(text) : text[i].k = k
    THEN (CHOOSE i \in 1..Len(text) :
             text[i].k = k /\ \A j \in (i + 1)..Len(text) : text[j].k # k) - 1
    ELSE -1

\* json.loads on a token string: an array of values, or JSONDecodeError
json_loads(toks) ==
    IF /\ Len(toks) >= 2
       /\ toks[1].k = "lb"
       /\ toks[Len(toks)].k = "rb"
       /\ \A i \in 2..(Len(toks) - 1) : toks[i].k = "val"
    THEN Return([i \in 1..(Len(toks) - 2) |-> toks[i + 1].q])
    ELSE Raise("JSONDecodeError")

RequiredKeys == {"type", "question", "correct_answer", "explanation"}

\* ValidateQuestion without the check of options
ValidateQuestion_Mut(q) ==
    IF q.kind # "dict" THEN "TypeError"
    ELSE IF ~(RequiredKeys \subseteq q.has) THEN "ValueError"
    ELSE ""

\* the two checks of the validation loop on one element; "" when it passes
ValidateQuestion(q) ==
    IF q.kind # "dict" THEN "TypeError"
    ELSE IF ~(RequiredKeys \subseteq q.has) THEN "ValueError"
    ELSE IF q.type = "multiple_choice" /\ "options" \notin q.has THEN "ValueError"
    ELSE ""

\* the validation loop: the first element that fails raises
ValidateAll(questions) ==
    IF \E i \in 1..Len(questions) : ValidateQuestion(questions[i]) # ""
    THEN LET i == CHOOSE i \in 1..Len(questions) :
                     /\ ValidateQuestion(questions[i]) # ""
                     /\ \A j \in 1..(i - 1) : ValidateQuestion(questions[j]) = ""
         IN  Raise(ValidateQuestion(questions[i]))
    ELSE Return(questions)

\* lines 111-127: the JSON array between the first '[' and the last ']'
ExtractQuestions(generated_text) ==
    LET start == Find(generated_text, "lb")
        end == RFind(generated_text, "rb") + 1
        json_str == PySlice(generated_text, start, end)
        questions == json_loads(json_str)
    IN  IF questions.ok THEN ValidateAll(questions.val) ELSE questions

\* resp is what requests.post met: an exception, a status, a body
generate_with_gemini(resp) ==
    IF resp.kind = "ConnectionError" THEN Raise("ConnectionError")
    ELSE IF resp.kind = "HTTPError" THEN Raise("HTTPError")
    ELSE IF resp.kind = "NoCandidates" THEN Raise("ValueError")
    ELSE IF resp.kind = "EmptyCandidates" THEN Raise("IndexError")
    ELSE ExtractQuestions(resp.text)

----------------------------------------------------------------------------
(* The inputs of the model *)

QuestionTypes == {"multiple_choice", "true_false", "short_answer"}

\* the non-empty question_types lists
TypeLists == UNION {[1..k -> QuestionTypes] : k \in 1..MaxTypes}

\* study texts, as their whitespace separated tokens
Contents ==
    { <<>>,
      <<"The", "DNA", "is", "!!">>,
      <<"Cell">>,
      <<"enzyme", "Cell", "cell,">>,
      <<"mitosis", "enzyme", "cell", "membrane">> }

\* question dicts a remote model may write
RQ_mc == Dict("multiple_choice", "Which city is the capital of France?",
              <<"Paris", "Rome", "Oslo", "Bern">>, Str("Paris"),
              "Paris is the capital of France.", AllKeys)
RQ_tf == Dict("true_false", "Paris is the capital of France.", <<>>,
              Bool(TRUE), "Paris is the capital.", AllKeys \ {"options"})
RQ_sa == Dict("short_answer", "Name the capital of France.", <<>>,
              Str("Paris"), "The capital is Paris.", AllKeys \ {"options"})
RQ_tf_str == Dict("true_false", "Rome is the capital of France.", <<>>,
                  Str("False"), "Paris is the capital.", AllKeys \ {"options"})
RQ_essay == Dict("essay", "", <<>>, Num("7"), "", AllKeys \ {"options"})
RQ_no_explanation == Dict("short_answer", "Name the capital of France.", <<>>,
                          Str("Paris"), "", AllKeys \ {"options", "explanation"})
RQ_mc_no_options == Dict("multiple_choice", "Which city is the capital of France?",
                         <<>>, Str("Paris"), "Paris is the capital of France.",
                         AllKeys \ {"options"})

\* k well-formed question dicts
WellFormed(k) ==
    [i \in 1..k |-> CASE i % 3 = 1 -> Val(RQ_mc)
                      [] i % 3 = 2 -> Val(RQ_tf)
                      [] OTHER -> Val(RQ_sa)]

\* texts a remote model may answer with
Texts ==
    { <<Prose>>,
      <<Prose, LB, Val(RQ_mc)>>,
      <<RB, Prose, LB>>,
      <<LB, Val(RQ_mc), Prose, RB>>,
      <<LB, Val(RQ_no_explanation), RB>>,
      <<LB, Val(RQ_mc_no_options), RB>>,
      <<LB, Val(IntElem), RB>>,
      <<LB, Val(RQ_essay), Val(RQ_tf_str), RB>> }
    \cup { <<Prose, LB>> \o WellFormed(k) \o <<RB, Prose>> : k \in 0..(MaxQuestions + 1) }

NoResponse == [kind |-> "none", text |-> <<>>]

\* what requests.post may meet
Responses ==
    { [kind |-> k, text |-> <<>>] :
        k \in {"ConnectionError", "HTTPError", "NoCandidates", "EmptyCandidates"} }
    \cup { [kind |-> "Text", text |-> t] : t \in Texts }

\* the values os.environ.get('GEMINI_API_KEY') may give
ApiKeys == {NoneVal, Str(""), Str("test-key")}

\* Truthy as "is not None": an empty key counts as a key
Truthy_Mut(x) == x.t # "none"

\* truth value of a str or None in a Python condition
Truthy(x) == x.t # "none" /\ x.v # ""

----------------------------------------------------------------------------
(* generate_questions, one call at a time *)

Init ==
    /\ apiKey \in ApiKeys
    /\ pc = "idle"
    /\ content = <<>>
    /\ num_questions = 1
    /\ question_types = <<"multiple_choice">>
    /\ response = NoResponse
    /\ remoteOutcome = "none"
    /\ remoteCalls = 0
    /\ fallbackCalls = 0
    /\ result = NoResult
    /\ fb_concepts = <<>>
    /\ fb_questions = <<>>
    /\ study_materials = {}
    /\ quizzes = {}
    /\ quiz_attempts = <<>>
    /\ nextId = 1
    /\ http = Http(0, "", NoGrade)
    /\ inflight = <<>>
    /\ generating = NoRequest
    /\ deleting = {}
    /\ args = NoArgs
    /\ outs = <<>>

\* a caller calls generate_questions(c, n, qt)
Call(c, n, qt) ==
    /\ pc \in {"idle", "done"}
    /\ pc' = "called"
    /\ content' = c
    /\ num_questions' = n
    /\ question_types' = qt
    /\ response' = NoResponse
    /\ remoteOutcome' = "none"
    /\ remoteCalls' = 0
    /\ fallbackCalls' = 0
    /\ result' = NoResult
    /\ fb_concepts' = <<>>
    /\ fb_questions' = <<>>
    /\ UNCHANGED <<fnVars, apiKey, storeVars>>

\* line 43, no key: the remote tier is skipped
SkipRemote ==
    /\ pc = "called"
    /\ ~Truthy(apiKey)
    /\ pc' = "fallback"
    /\ remoteOutcome' = "skipped"
    /\ UNCHANGED <<fnVars, storeVars, apiKey, content, num_questions, question_types, response,
                   remoteCalls, fallbackCalls, result, fb_concepts, fb_questions>>

\* lines 43-45 and 101: _generate_with_gemini posts the request and waits
InvokeRemote ==
    /\ pc = "called"
    /\ Truthy(apiKey)
    /\ pc' = "awaiting"
    /\ remoteCalls' = remoteCalls + 1
    /\ UNCHANGED <<fnVars, storeVars, apiKey, content, num_questions, question_types, response,
                   remoteOutcome, fallbackCalls, result, fb_concepts, fb_questions>>

\* the endpoint answers, or the transport fails
RemoteRespond(r) ==
    /\ pc = "awaiting"
    /\ pc' = "responded"
    /\ response' = r
    /\ UNCHANGED <<fnVars, storeVars, apiKey, content, num_questions, question_types,
                   remoteOutcome, remoteCalls, fallbackCalls, result,
             fb_concepts, fb_questions>>

\* line 46: questions and len(questions) >= num_questions
Enough(questions, n) == Len(questions) > 0 /\ Len(questions) >= n

\* HandleResponse with one more try of the remote tier after a failure
HandleResponse_Mut ==
    /\ pc = "responded"
    /\ LET questions == generate_with_gemini(response)
       IN  IF questions.ok /\ Enough(questions.val, num_questions)
           THEN /\ result' = Return(PySlice(questions.val, 0, num_questions))
                /\ remoteOutcome' = "returned"
                /\ pc' = "done"
           ELSE /\ result' = result
                /\ remoteOutcome' = IF questions.ok THEN "insufficient" ELSE "raised"
                /\ pc' = IF ~questions.ok /\ remoteCalls < 2 THEN "called" ELSE "fallback"
    /\ response' = NoResponse
    /\ UNCHANGED <<fnVars, storeVars, apiKey, content, num_questions, question_types,
                   remoteCalls, fallbackCalls, fb_concepts, fb_questions>>

\* lines 102-127 and 45-49: the answer is parsed, and returned if enough
HandleResponse ==
    /\ pc = "responded"
    /\ LET questions == generate_with_gemini(response)
       IN  IF questions.ok /\ Enough(questions.val, num_questions)
           THEN /\ result' = Return(PySlice(questions.val, 0, num_questions))
                /\ remoteOutcome' = "returned"
                /\ pc' = "done"
           ELSE /\ result' = result
                /\ remoteOutcome' = IF questions.ok THEN "insufficient" ELSE "raised"
                /\ pc' = "fallback"
    /\ response' = NoResponse
    /\ UNCHANGED <<fnVars, storeVars, apiKey, content, num_questions, question_types,
                   remoteCalls, fallbackCalls, fb_concepts, fb_questions>>

\* line 53: extract_key_concepts(content), worked out once per content
KeyConceptsOf ==
    [c \in Contents |-> extract_key_concepts(c, NumConceptsDefault)]

\* lines 53-54
FallbackTier(c, n, qt, shuf) ==
    generate_fallback_questions(KeyConceptsOf[c], n, qt, shuf)

\* lines 51-54 and 131-134: the concepts are extracted and handed to
\* _generate_fallback_questions, which starts with an empty list
BeginFallback ==
    /\ pc = "fallback"
    /\ fb_concepts' = Duplicated(KeyConceptsOf[content])
    /\ fb_questions' = <<>>
    /\ fallbackCalls' = fallbackCalls + 1
    /\ pc' = "loop"
    /\ UNCHANGED <<fnVars, storeVars, apiKey, content, num_questions, question_types,
                   response, remoteOutcome, remoteCalls, result>>

\* lines 136-169: one iteration of the loop, for i = len(questions)
FallbackIteration ==
    /\ pc = "loop"
    /\ Len(fb_questions) < num_questions
    /\ IF Len(question_types) = 0 \/ Len(fb_concepts) = 0
       THEN /\ result' = Raise("ZeroDivisionError")
            /\ pc' = "done"
            /\ UNCHANGED fb_questions
       ELSE /\ \E perm \in Perms4 :
                  fb_questions' = Append(fb_questions,
                                   FallbackQuestion(fb_concepts, question_types,
                                                    Len(fb_questions), perm))
            /\ UNCHANGED <<result, pc>>
    /\ UNCHANGED <<fnVars, storeVars, apiKey, content, num_questions, question_types,
                   response, remoteOutcome, remoteCalls, fallbackCalls,
                   fb_concepts>>

\* lines 171 and 54: the list is returned
FallbackReturn ==
    /\ pc = "loop"
    /\ Len(fb_questions) >= num_questions
    /\ result' = Return(fb_questions)
    /\ pc' = "done"
    /\ UNCHANGED <<fnVars, storeVars, apiKey, content, num_questions, question_types,
                   response, remoteOutcome, remoteCalls, fallbackCalls,
                   fb_concepts, fb_questions>>

Next ==
    \/ \E c \in Contents, n \in 1..MaxQuestions, qt \in TypeLists : Call(c, n, qt)
    \/ SkipRemote
    \/ InvokeRemote
    \/ \E r \in Responses : RemoteRespond(r)
    \/ HandleResponse
    \/ BeginFallback
    \/ FallbackIteration
    \/ FallbackReturn

Spec == Init /\ [][Next]_vars

\* the steps of the program are taken; the remote endpoint owes no answer
FairSpec == Spec /\ WF_vars(SkipRemote \/ InvokeRemote \/ HandleResponse \/ BeginFallback
                    \/ FallbackIteration \/ FallbackReturn)

----------------------------------------------------------------------------
(* generate_questions as a function of its inputs and of what the call     *)
(* meets: resp is the answer to requests.post, shuf the shuffles.          *)

generate_questions(key, c, n, qt, resp, shuf) ==
    IF Truthy(key)
    THEN LET remote == generate_with_gemini(resp)
         IN  IF remote.ok /\ Enough(remote.val, n)
             THEN Return(PySlice(remote.val, 0, n))
             ELSE FallbackTier(c, n, qt, shuf)
    ELSE FallbackTier(c, n, qt, shuf)

----------------------------------------------------------------------------
(* Grading: submit_quiz_attempt, lines 277-331 *)

\* a == b of Python on the values of the model
PyEq(a, b) ==
    IF a.t = b.t THEN a.v = b.v
    ELSE IF a.t = "bool" /\ b.t = "int"
         THEN (a.v = "True" /\ b.v = "1") \/ (a.v = "False" /\ b.v = "0")
    ELSE IF a.t = "int" /\ b.t = "bool"
         THEN (b.v = "True" /\ a.v = "1") \/ (b.v = "False" /\ a.v = "0")
    ELSE FALSE

\* bool(x) of Python
PyBool(x) ==
    CASE x.t = "bool" -> x.v = "True"
      [] x.t = "int" -> x.v # "0"
      [] x.t = "str" -> x.v # ""
      [] OTHER -> FALSE

\* answers.get(key) on a dict
DictGet(map, key) == IF key \in DOMAIN map THEN map[key] ELSE NoneVal

\* question.get('explanation', '')
ExplanationOf(question) ==
    IF "explanation" \in question.has THEN question.explanation ELSE ""

\* lines 296-317: is_correct for an answered question
IsCorrect(question, user_answer) ==
    LET correct_answer == question.correct_answer
    IN  IF question.type = "multiple_choice"
        THEN PyEq(user_answer, correct_answer)
        ELSE IF question.type = "true_false"
        THEN LET user_answer_bool ==
                     IF user_answer.t = "str"
                     THEN Bool(Lower(user_answer.v) = "true")
                     ELSE Bool(PyBool(user_answer))
                 correct_answer_bool ==
                     IF correct_answer.t = "str"
                     THEN Bool(Lower(correct_answer.v) = "true")
                     ELSE correct_answer
             IN  PyEq(user_answer_bool, correct_answer_bool)
        ELSE IF question.type = "short_answer"
        THEN IF user_answer.t = "str" /\ correct_answer.t = "str"
             THEN Strip(Lower(user_answer.v)) = Strip(Lower(correct_answer.v))
             ELSE PyEq(user_answer, correct_answer)
        ELSE FALSE

\* Unanswered with the question counted as correct
Unanswered_Mut(question, i) ==
    [question_id |-> i, correct |-> TRUE,
     correct_answer |-> question.correct_answer,
     explanation |-> ExplanationOf(question)]

\* lines 286-293: the result of a question that was not answered
Unanswered(question, i) ==
    [question_id |-> i, correct |-> FALSE,
     correct_answer |-> question.correct_answer,
     explanation |-> ExplanationOf(question)]

\* Answered with the position counted from 1
Answered_Mut(question, i, is_correct) ==
    [question_id |-> i + 1, correct |-> is_correct,
     correct_answer |-> question.correct_answer,
     explanation |-> ExplanationOf(question)]

\* lines 322-327: the result of an answered question
Answered(question, i, is_correct) ==
    [question_id |-> i, correct |-> is_correct,
     correct_answer |-> question.correct_answer,
     explanation |-> ExplanationOf(question)]

\* lines 282-327: one iteration of the grading loop, for the 0-based index
\* i: the result appended and what is added to score
GradeQuestion(question, i, map) ==
    LET user_answer == DictGet(map, ToString(i))
    IN  IF user_answer = NoneVal
        THEN [result |-> Unanswered(question, i), gain |-> 0]
        ELSE LET is_correct == IsCorrect(question, user_answer)
             IN  [result |-> Answered(question, i, is_correct),
                  gain |-> IF is_correct THEN 1 ELSE 0]

\* score after the first k iterations
RECURSIVE ScoreAfter(_, _, _)
ScoreAfter(qs, map, k) ==
    IF k = 0 THEN 0
    ELSE ScoreAfter(qs, map, k - 1) + GradeQuestion(qs[k], k - 1, map).gain

\* Percentage without the factor 100
Percentage_Mut(score, total_questions) ==
    IF total_questions > 0
    THEN [num |-> score, den |-> total_questions]
    ELSE [num |-> 0, den |-> 1]

\* line 331, as the exact fraction num/den
Percentage(score, total_questions) ==
    IF total_questions > 0
    THEN [num |-> score * 100, den |-> total_questions]
    ELSE [num |-> 0, den |-> 1]

\* Grade with a score that carries over from the attempts already stored
Grade_Mut(qs, answers) ==
    IF Len(qs) > 0 /\ answers.kind # "dict" THEN Raise("AttributeError")
    ELSE Return([score |-> ScoreAfter(qs, answers.map, Len(qs)) + Len(quiz_attempts),
                 total_questions |-> Len(qs),
                 percentage |-> Percentage(ScoreAfter(qs, answers.map, Len(qs)), Len(qs)),
                 results |-> [k \in 1..Len(qs) |->
                                 GradeQuestion(qs[k], k - 1, answers.map).result]])

\* lines 277-331: the loop needs answers.get, which only a dict has
Grade(qs, answers) ==
    IF Len(qs) > 0 /\ answers.kind # "dict" THEN Raise("AttributeError")
    ELSE Return([score |-> ScoreAfter(qs, answers.map, Len(qs)),
                 total_questions |-> Len(qs),
                 percentage |-> Percentage(ScoreAfter(qs, answers.map, Len(qs)), Len(qs)),
                 results |-> [k \in 1..Len(qs) |->
                                 GradeQuestion(qs[k], k - 1, answers.map).result]])

----------------------------------------------------------------------------
(* The request handlers over the store, one request at a time *)

MaxDocs == 3

Users == {"alice", "bob"}

\* contents of the study materials users upload
StoreContents == { <<"Cell">>, <<"The", "DNA", "is", "!!">> }

\* num_questions of a generate request
QuizSizes == {0, 1, 3}

\* line 67: the default question_types
DefaultTypes == <<"multiple_choice", "true_false", "short_answer">>

\* what the remote endpoint answers during a generate request
StoreResponses ==
    { [kind |-> "ConnectionError", text |-> <<>>],
      [kind |-> "Text", text |-> <<Prose, LB>> \o WellFormed(3) \o <<RB, Prose>>],
      [kind |-> "Text", text |-> <<LB, Val(RQ_essay), Val(RQ_tf_str), RB>>] }

\* the "answers" of a submission: a dict, a list, or none in the body
AnswerDict(map) == [kind |-> "dict", map |-> map]
AnswerList == [kind |-> "list", map |-> <<>>]
NoAnswers == [kind |-> "missing", map |-> <<>>]

AnswerPayloads ==
    { NoAnswers,
      AnswerList,
      AnswerDict(<<>>),
      AnswerDict("0" :> Str("Paris")),
      AnswerDict("0" :> Str("Rome")),
      AnswerDict("0" :> Str("cell")),
      AnswerDict("0" :> Str("Paris") @@ "1" :> Str("TRUE") @@ "2" :> Str(" Paris ")),
      AnswerDict("0" :> NoneVal @@ "1" :> Bool(FALSE) @@ "2" :> Str("Rome")),
      AnswerDict("1" :> Bool(TRUE) @@ "7" :> Str("Paris")) }

\* an id in a request path or body: not an ObjectId, or an ObjectId
BadId == [valid |-> FALSE, n |-> 0]
ObjId(n) == [valid |-> TRUE, n |-> n]

StoreSize ==
    Cardinality(study_materials) + Cardinality(quizzes) + Len(quiz_attempts)

\* a filter without the owner
OwnedBy_Mut(doc, user_id) == TRUE

\* get_user_filter: the documents of the user
OwnedBy(doc, user_id) == doc.user_id = user_id

\* find_one({"_id": ..., "$or": user_filter}) on a collection
FindOwned(coll, id, user_id) ==
    {d \in coll : id.valid /\ d.id = id.n /\ OwnedBy(d, user_id)}

\* create_material
CreateMaterial(u, c) ==
    /\ StoreSize < MaxDocs
    /\ IF c = <<>>
       THEN /\ http' = Http(400, "Title and content cannot be empty", NoGrade)
            /\ UNCHANGED <<study_materials, nextId>>
       ELSE /\ study_materials' = study_materials \cup
                   {[id |-> nextId, user_id |-> u, content |-> c]}
            /\ nextId' = nextId + 1
            /\ http' = Http(201, "", NoGrade)
    /\ UNCHANGED <<fnVars, deleting, apiKey, genVars, quizzes, quiz_attempts, inflight, generating>>

\* what generate_questions may return or raise when the endpoint answers r
GenerateOutcomes(key, c, n, qt, r) ==
    {generate_questions(key, c, n, qt, r, shuf) : shuf \in Shuffles(n, qt)}

\* generate_quiz; r is what its generate_questions call meets
GenerateQuiz(u, material_id, n, r) ==
    /\ StoreSize < MaxDocs
    /\ IF ~material_id.valid
       THEN /\ http' = Http(400, "Invalid material ID", NoGrade)
            /\ UNCHANGED <<quizzes, nextId>>
       ELSE IF FindOwned(study_materials, material_id, u) = {}
       THEN /\ http' = Http(404, "Study material not found", NoGrade)
            /\ UNCHANGED <<quizzes, nextId>>
       ELSE \E generated \in
                    GenerateOutcomes(apiKey,
                        (CHOOSE m \in FindOwned(study_materials, material_id, u) : TRUE).content,
                        n, DefaultTypes, r) :
                IF ~generated.ok
                THEN /\ http' = Http(500, "Failed to generate quiz", NoGrade)
                     /\ UNCHANGED <<quizzes, nextId>>
                ELSE /\ quizzes' = quizzes \cup
                            {[id |-> nextId, user_id |-> u,
                              material_id |-> material_id.n,
                              questions |-> generated.val]}
                     /\ nextId' = nextId + 1
                     /\ http' = Http(201, "", NoGrade)
    /\ UNCHANGED <<fnVars, deleting, apiKey, genVars, study_materials, quiz_attempts, inflight, generating>>

\* submit_quiz_attempt
SubmitQuizAttempt(u, quiz_id, answers) ==
    /\ StoreSize < MaxDocs
    /\ IF answers.kind = "missing"
       THEN /\ http' = Http(400, "Quiz answers are required", NoGrade)
            /\ UNCHANGED <<quiz_attempts, nextId>>
       ELSE IF ~quiz_id.valid
       THEN /\ http' = Http(400, "Invalid quiz ID", NoGrade)
            /\ UNCHANGED <<quiz_attempts, nextId>>
       ELSE IF FindOwned(quizzes, quiz_id, u) = {}
       THEN /\ http' = Http(404, "Quiz not found", NoGrade)
            /\ UNCHANGED <<quiz_attempts, nextId>>
       ELSE LET quiz == CHOOSE q \in FindOwned(quizzes, quiz_id, u) : TRUE
                graded == Grade(quiz.questions, answers)
            IN  IF ~graded.ok
                THEN /\ http' = Http(500, "Failed to submit quiz", NoGrade)
                     /\ UNCHANGED <<quiz_attempts, nextId>>
                ELSE /\ quiz_attempts' = Append(quiz_attempts,
                            [id |-> nextId, quiz_id |-> quiz_id.n, user_id |-> u,
                             answers |-> answers,
                             score |-> graded.val.score,
                             total_questions |-> graded.val.total_questions,
                             percentage |-> graded.val.percentage,
                             results |-> graded.val.results])
                     /\ nextId' = nextId + 1
                     /\ http' = Http(201, "", graded.val)
    /\ UNCHANGED <<fnVars, deleting, apiKey, genVars, study_materials, quizzes, inflight, generating>>

\* the ids a request may name: a stored one, one never stored, no ObjectId
RequestIds == {BadId} \cup {ObjId(k) : k \in 1..nextId}

StoreNext ==
    \/ \E u \in Users, c \in StoreContents \cup {<<>>} : CreateMaterial(u, c)
    \/ \E u \in Users, m \in RequestIds, n \in QuizSizes, r \in StoreResponses :
          GenerateQuiz(u, m, n, r)
    \/ \E u \in Users, q \in RequestIds, a \in AnswerPayloads :
          SubmitQuizAttempt(u, q, a)

StoreSpec == Init /\ [][StoreNext]_vars

----------------------------------------------------------------------------
(* submit_quiz_attempt, several requests at a time, on a stored quiz *)

MaxAttempts == 3

\* more question dicts a remote model may write: they hold the four keys
RQ_sa_num == Dict("short_answer", "How many hills has Rome?", <<>>,
                  Num("7"), "Rome has seven hills.", AllKeys \ {"options"})
RQ_tf_false == Dict("true_false", "Rome is the capital of France.", <<>>,
                    Bool(FALSE), "Paris is the capital.", AllKeys \ {"options"})
RQ_sa_padded == Dict("short_answer", "Name the capital of France.", <<>>,
                     Str(" Paris "), "The capital is Paris.", AllKeys \ {"options"})
RQ_tf_upper == Dict("true_false", "Paris is the capital of France.", <<>>,
                    Str("TRUE"), "Paris is the capital.", AllKeys \ {"options"})

\* quiz['questions'] of a stored quiz: what generate_quiz stored for
\* num_questions = 0, from four remote answers, and from the fallback tier
StoredQuestions ==
    { <<>>,
      <<RQ_mc, RQ_tf, RQ_sa>>,
      <<RQ_essay, RQ_tf_str>>,
      <<RQ_sa_num, RQ_tf_false, RQ_sa_padded>>,
      <<RQ_mc, RQ_tf_upper>> }
    \cup { g.val : g \in { x \in GenerateOutcomes(NoneVal, <<"Cell">>, 3,
                                                  DefaultTypes, NoResponse) : x.ok } }

\* the "answers" of the submissions
AttemptPayloads ==
    { NoAnswers,
      AnswerList,
      AnswerDict(<<>>),
      AnswerDict("0" :> Str("Paris") @@ "1" :> Str("TRUE") @@ "2" :> Str(" paris ")),
      AnswerDict("0" :> Str("Paris") @@ "1" :> Str("true") @@ "2" :> Str("Paris")),
      AnswerDict("0" :> Str("Paris") @@ "1" :> Bool(TRUE) @@ "2" :> Str(" Paris ")),
      AnswerDict("0" :> Str("Rome") @@ "1" :> Str("false") @@ "2" :> Str("Rome")),
      AnswerDict("0" :> Str("Rome") @@ "1" :> Bool(FALSE) @@ "2" :> Str("Rome")),
      AnswerDict("0" :> Num("7") @@ "2" :> Num("7")) }

\* the store after alice uploaded a material and generated one quiz from it
InitAttempts ==
    /\ apiKey = Str("test-key")
    /\ pc = "idle"
    /\ content = <<>>
    /\ num_questions = 1
    /\ question_types = <<"multiple_choice">>
    /\ response = NoResponse
    /\ remoteOutcome = "none"
    /\ remoteCalls = 0
    /\ fallbackCalls = 0
    /\ result = NoResult
    /\ fb_concepts = <<>>
    /\ fb_questions = <<>>
    /\ study_materials = {[id |-> 1, user_id |-> "alice", content |-> <<"Cell">>]}
    /\ \E qs \in StoredQuestions :
          quizzes = {[id |-> 2, user_id |-> "alice", material_id |-> 1,
                      questions |-> qs]}
    /\ quiz_attempts = <<>>
    /\ nextId = 3
    /\ http = Http(0, "", NoGrade)
    /\ inflight = <<>>
    /\ generating = NoRequest
    /\ deleting = {}
    /\ args = NoArgs
    /\ outs = <<>>

\* lines 252-275: a request up to its read of the quiz; the locals of a
\* request that found its quiz are kept until it goes on
BeginSubmit(u, quiz_id, answers) ==
    /\ Len(inflight) + Len(quiz_attempts) < MaxAttempts
    /\ IF answers.kind = "missing"
       THEN /\ http' = Http(400, "Quiz answers are required", NoGrade)
            /\ UNCHANGED inflight
       ELSE IF ~quiz_id.valid
       THEN /\ http' = Http(400, "Invalid quiz ID", NoGrade)
            /\ UNCHANGED inflight
       ELSE IF FindOwned(quizzes, quiz_id, u) = {}
       THEN /\ http' = Http(404, "Quiz not found", NoGrade)
            /\ UNCHANGED inflight
       ELSE /\ inflight' = Append(inflight,
                   [user_id |-> u, quiz_id |-> quiz_id, answers |-> answers,
                    quiz |-> CHOOSE q \in FindOwned(quizzes, quiz_id, u) : TRUE])
            /\ UNCHANGED http
    /\ UNCHANGED <<fnVars, deleting, apiKey, genVars, study_materials, quizzes, quiz_attempts, nextId,
                   generating>>

\* the sequence xs without its k-th element
Without(xs, k) == [j \in 1..(Len(xs) - 1) |-> IF j < k THEN xs[j] ELSE xs[j + 1]]

\* FinishSubmit keeping one attempt per user and quiz: the new attempt
\* takes the place of the earlier ones
FinishSubmit_Mut(k) ==
    /\ k \in 1..Len(inflight)
    /\ LET req == inflight[k]
           graded == Grade(req.quiz.questions, req.answers)
           Others(a) == ~(a.user_id = req.user_id /\ a.quiz_id = req.quiz_id.n)
       IN  IF ~graded.ok
           THEN /\ http' = Http(500, "Failed to submit quiz", NoGrade)
                /\ UNCHANGED <<quiz_attempts, nextId>>
           ELSE /\ quiz_attempts' = Append(SelectSeq(quiz_attempts, Others),
                       [id |-> nextId, quiz_id |-> req.quiz_id.n,
                        user_id |-> req.user_id,
                        answers |-> req.answers,
                        score |-> graded.val.score,
                        total_questions |-> graded.val.total_questions,
                        percentage |-> graded.val.percentage,
                        results |-> graded.val.results])
                /\ nextId' = nextId + 1
                /\ http' = Http(201, "", graded.val)
    /\ inflight' = Without(inflight, k)
    /\ UNCHANGED <<fnVars, deleting, apiKey, genVars, study_materials, quizzes, generating>>

\* lines 277-360: request k grades its quiz, inserts its attempt and answers
FinishSubmit(k) ==
    /\ k \in 1..Len(inflight)
    /\ LET req == inflight[k]
           graded == Grade(req.quiz.questions, req.answers)
       IN  IF ~graded.ok
           THEN /\ http' = Http(500, "Failed to submit quiz", NoGrade)
                /\ UNCHANGED <<quiz_attempts, nextId>>
           ELSE /\ quiz_attempts' = Append(quiz_attempts,
                       [id |-> nextId, quiz_id |-> req.quiz_id.n,
                        user_id |-> req.user_id,
                        answers |-> req.answers,
                        score |-> graded.val.score,
                        total_questions |-> graded.val.total_questions,
                        percentage |-> graded.val.percentage,
                        results |-> graded.val.results])
                /\ nextId' = nextId + 1
                /\ http' = Http(201, "", graded.val)
    /\ inflight' = Without(inflight, k)
    /\ UNCHANGED <<fnVars, deleting, apiKey, genVars, study_materials, quizzes, generating>>

AttemptNext ==
    \/ \E u \in Users, q \in RequestIds, a \in AttemptPayloads : BeginSubmit(u, q, a)
    \/ \E k \in 1..MaxAttempts : FinishSubmit(k)

AttemptSpec == InitAttempts /\ [][AttemptNext]_vars

----------------------------------------------------------------------------
(* generate_quiz, with the steps of its generate_questions call *)

\* lines 50-83: a request up to its call of generate_questions
BeginGenerateQuiz(u, material_id, n) ==
    /\ pc = "idle"
    /\ ~generating.active
    /\ StoreSize < MaxDocs
    /\ IF ~material_id.valid
       THEN /\ http' = Http(400, "Invalid material ID", NoGrade)
            /\ UNCHANGED <<genVars, generating>>
       ELSE IF FindOwned(study_materials, material_id, u) = {}
       THEN /\ http' = Http(404, "Study material not found", NoGrade)
            /\ UNCHANGED <<genVars, generating>>
       ELSE /\ generating' = [active |-> TRUE, user_id |-> u,
                              material_id |-> material_id.n]
            /\ pc' = "called"
            /\ content' = (CHOOSE m \in FindOwned(study_materials, material_id, u) : TRUE).content
            /\ num_questions' = n
            /\ question_types' = DefaultTypes
            /\ response' = NoResponse
            /\ remoteOutcome' = "none"
            /\ remoteCalls' = 0
            /\ fallbackCalls' = 0
            /\ result' = NoResult
            /\ fb_concepts' = <<>>
            /\ fb_questions' = <<>>
            /\ UNCHANGED http
    /\ UNCHANGED <<fnVars, deleting, apiKey, study_materials, quizzes, quiz_attempts, nextId, inflight>>

\* the locals of the generate_questions call are gone
ForgetCall ==
    /\ pc' = "idle"
    /\ response' = NoResponse
    /\ remoteOutcome' = "none"
    /\ remoteCalls' = 0
    /\ fallbackCalls' = 0
    /\ result' = NoResult
    /\ fb_concepts' = <<>>
    /\ fb_questions' = <<>>
    /\ UNCHANGED <<content, num_questions, question_types>>

\* lines 86-111: generate_questions returned or raised; the quiz is stored
\* and the request answered
EndGenerateQuiz ==
    /\ generating.active
    /\ pc = "done"
    /\ IF result.ok
       THEN /\ quizzes' = quizzes \cup
                   {[id |-> nextId, user_id |-> generating.user_id,
                     material_id |-> generating.material_id,
                     questions |-> result.val]}
            /\ nextId' = nextId + 1
            /\ http' = Http(201, "", NoGrade)
       ELSE /\ http' = Http(500, "Failed to generate quiz", NoGrade)
            /\ UNCHANGED <<quizzes, nextId>>
    /\ generating' = NoRequest
    /\ ForgetCall
    /\ UNCHANGED <<fnVars, deleting, apiKey, study_materials, quiz_attempts, inflight>>

\* AbandonGenerateQuiz storing the questions written so far
AbandonGenerateQuiz_Mut ==
    /\ generating.active
    /\ quizzes' = quizzes \cup
           {[id |-> nextId, user_id |-> generating.user_id,
             material_id |-> generating.material_id,
             questions |-> fb_questions]}
    /\ nextId' = nextId + 1
    /\ generating' = NoRequest
    /\ ForgetCall
    /\ UNCHANGED <<fnVars, deleting, apiKey, study_materials, quiz_attempts, http, inflight>>

\* the request ends before line 98: its client gave up and the worker that
\* served it was stopped
AbandonGenerateQuiz ==
    /\ generating.active
    /\ generating' = NoRequest
    /\ ForgetCall
    /\ UNCHANGED <<fnVars, deleting, apiKey, study_materials, quizzes, quiz_attempts, nextId, http,
                   inflight>>

QuizNext ==
    \/ \E u \in Users, c \in StoreContents : CreateMaterial(u, c)
    \/ \E u \in Users, m \in RequestIds, n \in 0..MaxQuestions :
          BeginGenerateQuiz(u, m, n)
    \/ SkipRemote
    \/ InvokeRemote
    \/ \E r \in Responses : RemoteRespond(r)
    \/ HandleResponse
    \/ BeginFallback
    \/ FallbackIteration
    \/ FallbackReturn
    \/ EndGenerateQuiz
    \/ AbandonGenerateQuiz

QuizSpec == Init /\ [][QuizNext]_vars

----------------------------------------------------------------------------
(* extract_key_concepts and _generate_fallback_questions, each called twice *)
(* on the same arguments                                                    *)

MaxWords == 4

\* the whitespace separated tokens of the texts
ExtractTokens == {"The", "Cell", "cell,", "enzyme", "mitosis", "with", "DNA", "!!"}

\* the texts of at most MaxWords tokens
ExtractTexts == UNION {[1..k -> ExtractTokens] : k \in 0..MaxWords}

\* the values of num_concepts: small ones and the default
ConceptCounts == {0, 1, 2, NumConceptsDefault}

ExtractArgs ==
    {[NoArgs EXCEPT !.fn = "extract_key_concepts", !.text = t, !.num_concepts = k] :
        t \in ExtractTexts, k \in ConceptCounts}

\* lists extract_key_concepts returns: no word, one, two, three, four words
ConceptLists ==
    { <<>>,
      <<"cell">>,
      <<"cell", "enzyme">>,
      <<"cell", "enzyme", "mitosis">>,
      <<"cell", "enzyme", "mitosis", "membrane">> }

FallbackArgs ==
    {[NoArgs EXCEPT !.fn = "_generate_fallback_questions", !.key_concepts = kc,
                    !.num_questions = n, !.question_types = qt] :
        kc \in ConceptLists, n \in 0..MaxQuestions, qt \in TypeLists}

InitRuns ==
    /\ apiKey = NoneVal
    /\ pc = "idle"
    /\ content = <<>>
    /\ num_questions = 1
    /\ question_types = <<"multiple_choice">>
    /\ response = NoResponse
    /\ remoteOutcome = "none"
    /\ remoteCalls = 0
    /\ fallbackCalls = 0
    /\ result = NoResult
    /\ fb_concepts = <<>>
    /\ fb_questions = <<>>
    /\ study_materials = {}
    /\ quizzes = {}
    /\ quiz_attempts = <<>>
    /\ nextId = 1
    /\ http = Http(0, "", NoGrade)
    /\ inflight = <<>>
    /\ generating = NoRequest
    /\ deleting = {}
    /\ args \in ExtractArgs \cup FallbackArgs
    /\ outs = <<>>

\* one call of extract_key_concepts(text, num_concepts)
RunExtract ==
    /\ args.fn = "extract_key_concepts"
    /\ Len(outs) < 2
    /\ outs' = Append(outs, Return(extract_key_concepts(args.text, args.num_concepts)))
    /\ UNCHANGED <<apiKey, genVars, storeVars, args>>

\* one call of _generate_fallback_questions(key_concepts, num_questions,
\* question_types), with the outcome of each random.shuffle
RunFallback ==
    /\ args.fn = "_generate_fallback_questions"
    /\ Len(outs) < 2
    /\ \E shuf \in Shuffles(args.num_questions, args.question_types) :
          outs' = Append(outs,
                      generate_fallback_questions(args.key_concepts, args.num_questions,
                                                  args.question_types, shuf))
    /\ UNCHANGED <<apiKey, genVars, storeVars, args>>

FunctionNext ==
    \/ RunExtract
    \/ RunFallback

FunctionSpec == InitRuns /\ [][FunctionNext]_vars

----------------------------------------------------------------------------
(* All routes that read or write quizzes, one request at a time *)

\* the store hands out the ids 1..MaxIds
MaxIds == 3

\* get_quiz
GetQuiz(u, quiz_id) ==
    /\ http' = IF ~quiz_id.valid
               THEN Http(400, "Invalid quiz ID", NoGrade)
               ELSE IF FindOwned(quizzes, quiz_id, u) = {}
               THEN Http(404, "Quiz not found", NoGrade)
               ELSE Http(200, "", NoGrade)
    /\ UNCHANGED <<fnVars, deleting, apiKey, genVars, study_materials, quizzes,
                   quiz_attempts, nextId, inflight, generating>>

\* the attempts that are left after delete_many({"quiz_id": ...})
AttemptsNotOf(attempts, ids) == SelectSeq(attempts, LAMBDA a : a.quiz_id \notin ids)

\* delete_quiz
DeleteQuiz(u, quiz_id) ==
    /\ IF ~quiz_id.valid
       THEN /\ http' = Http(400, "Invalid quiz ID", NoGrade)
            /\ UNCHANGED <<quizzes, quiz_attempts>>
       ELSE IF FindOwned(quizzes, quiz_id, u) = {}
       THEN /\ http' = Http(404, "Quiz not found or not owned by user", NoGrade)
            /\ UNCHANGED <<quizzes, quiz_attempts>>
       ELSE /\ quizzes' = quizzes \ FindOwned(quizzes, quiz_id, u)
            /\ quiz_attempts' = AttemptsNotOf(quiz_attempts, {quiz_id.n})
            /\ http' = Http(200, "", NoGrade)
    /\ UNCHANGED <<fnVars, deleting, apiKey, genVars, study_materials, nextId, inflight,
                   generating>>

\* delete_material
DeleteMaterial(u, material_id) ==
    /\ IF ~material_id.valid
       THEN /\ http' = Http(400, "Invalid material ID", NoGrade)
            /\ UNCHANGED <<study_materials, quizzes>>
       ELSE IF FindOwned(study_materials, material_id, u) = {}
       THEN /\ http' = Http(404, "Study material not found", NoGrade)
            /\ UNCHANGED <<study_materials, quizzes>>
       ELSE /\ study_materials' = {m \in study_materials : m.id # material_id.n}
            /\ quizzes' = {q \in quizzes : q.material_id # material_id.n}
            /\ http' = Http(200, "", NoGrade)
    /\ UNCHANGED <<fnVars, deleting, apiKey, genVars, quiz_attempts, nextId, inflight,
                   generating>>

RouteNext ==
    \/ \E u \in Users, c \in StoreContents :
          nextId <= MaxIds /\ CreateMaterial(u, c)
    \/ \E u \in Users, m \in RequestIds, n \in QuizSizes, r \in StoreResponses :
          nextId <= MaxIds /\ GenerateQuiz(u, m, n, r)
    \/ \E u \in Users, q \in RequestIds, a \in AnswerPayloads :
          nextId <= MaxIds /\ SubmitQuizAttempt(u, q, a)
    \/ \E u \in Users, q \in RequestIds : GetQuiz(u, q)
    \/ \E u \in Users, q \in RequestIds : DeleteQuiz(u, q)
    \/ \E u \in Users, m \in RequestIds : DeleteMaterial(u, m)

RouteSpec == Init /\ [][RouteNext]_vars

----------------------------------------------------------------------------
(* delete_quiz and submit_quiz_attempt, several requests at a time *)

\* lines 577-589: delete_quiz up to its delete_one
BeginDeleteQuiz(u, quiz_id) ==
    /\ IF ~quiz_id.valid
       THEN /\ http' = Http(400, "Invalid quiz ID", NoGrade)
            /\ UNCHANGED <<quizzes, deleting>>
       ELSE IF FindOwned(quizzes, quiz_id, u) = {}
       THEN /\ http' = Http(404, "Quiz not found or not owned by user", NoGrade)
            /\ UNCHANGED <<quizzes, deleting>>
       ELSE /\ quizzes' = quizzes \ FindOwned(quizzes, quiz_id, u)
            /\ deleting' = deleting \cup {quiz_id.n}
            /\ UNCHANGED http
    /\ UNCHANGED <<fnVars, apiKey, genVars, study_materials, quiz_attempts, nextId,
                   inflight, generating>>

\* lines 591-596: its delete_many and its answer
EndDeleteQuiz(n) ==
    /\ n \in deleting
    /\ quiz_attempts' = AttemptsNotOf(quiz_attempts, {n})
    /\ deleting' = deleting \ {n}
    /\ http' = Http(200, "", NoGrade)
    /\ UNCHANGED <<fnVars, apiKey, genVars, study_materials, quizzes, nextId, inflight,
                   generating>>

RaceNext ==
    \/ \E u \in Users, q \in RequestIds, a \in AttemptPayloads : BeginSubmit(u, q, a)
    \/ \E k \in 1..MaxAttempts : FinishSubmit(k)
    \/ \E u \in Users, q \in RequestIds : BeginDeleteQuiz(u, q)
    \/ \E n \in deleting : EndDeleteQuiz(n)

RaceSpec == InitAttempts /\ [][RaceNext]_vars

----------------------------------------------------------------------------
(* Properties of generate_questions *)

\* the concepts the fallback tier of the running call works from
Concepts == KeyConceptsOf[content]

Returned == pc = "done" /\ result.ok

\* number of positions of the list xs that hold x
Occurrences(xs, x) == Cardinality({j \in 1..Len(xs) : xs[j] = x})

\* the Question invariants of the data model
QuestionInvariant(q) ==
    /\ q.kind = "dict"
    /\ RequiredKeys \subseteq q.has
    /\ q.type \in QuestionTypes
    /\ q.question # ""
    /\ q.explanation # ""
    /\ (q.type = "true_false" => q.correct_answer.t = "bool")
    /\ (q.type # "true_false" => q.correct_answer.t = "str")

\* q is a fallback question built around the concept c
AnchoredOn(q, c) ==
    CASE q.type = "multiple_choice" ->
            /\ q.correct_answer = Str(c)
            /\ q.explanation = c \o " was identified as a key concept in the material."
      [] q.type = "true_false" ->
            /\ q.question = "The concept '" \o c \o "' is important in this context."
            /\ q.explanation = "The material specifically mentions '" \o c \o "' as important."
      [] OTHER ->
            /\ q.question = "Explain the significance of '" \o c \o "' in this context."
            /\ q.correct_answer = Str(c \o " is a key concept that...")

\* q is a question only the fallback tier writes
FallbackSourced(q) ==
    q.question \in
        {"Which of these is most relevant to the study material?"}
        \cup {"The concept '" \o Concepts[j] \o "' is important in this context." :
                 j \in 1..Len(Concepts)}
        \cup {"Explain the significance of '" \o Concepts[j] \o "' in this context." :
                 j \in 1..Len(Concepts)}

\* q is one of the question dicts the remote model wrote
RemoteSourced(q) ==
    q \in {RQ_mc, RQ_tf, RQ_sa, RQ_tf_str, RQ_essay}

\* C1: every call of generate_questions returns a sequence of exactly
\* num_questions questions, whatever the content and the remote outcome.
C1_ExactlyNumQuestions ==
    pc = "done" => result.ok /\ Len(result.val) = num_questions

\* C2: every question generate_questions returns, from either tier,
\* satisfies the Question invariants.
C2_ReturnedQuestionsValid ==
    Returned => \A i \in 1..Len(result.val) : QuestionInvariant(result.val[i])

\* C3: when the remote tier fails, generate_questions raises nothing and
\* returns the fallback questions.
C3_RemoteFailureAbsorbed ==
    pc = "done" /\ remoteOutcome = "raised" =>
        /\ result.ok
        /\ \A i \in 1..Len(result.val) : FallbackSourced(result.val[i])

\* C4: every call of generate_questions eventually returns, also when the
\* remote endpoint never answers.
C4_EveryCallReturns == (pc = "called") ~> (pc = "done")

\* C5: too few remote questions are discarded for the fallback tier's full
\* sequence, and a returned sequence is all remote or all fallback.
C5_NoMixOfTiers ==
    /\ pc = "done" /\ remoteOutcome = "insufficient" =>
          /\ result.ok
          /\ Len(result.val) = num_questions
          /\ \A i \in 1..Len(result.val) : FallbackSourced(result.val[i])
    /\ Returned =>
          \/ \A i \in 1..Len(result.val) : FallbackSourced(result.val[i])
          \/ \A i \in 1..Len(result.val) : RemoteSourced(result.val[i])

\* the configuration holds no API key
KeyAbsent == apiKey = NoneVal \/ apiKey = Str("")

\* C6: without an API key the remote tier is never invoked; the call goes
\* straight to concept extraction and the fallback tier.
C6_NoKeyNoRemoteCall ==
    KeyAbsent =>
        /\ remoteCalls = 0
        /\ response = NoResponse
        /\ pc \in {"idle", "called", "fallback", "loop", "done"}
        /\ (pc = "fallback" => remoteOutcome = "skipped")
        /\ (pc = "done" => remoteOutcome = "skipped" /\ fallbackCalls = 1)

C6_Witness == KeyAbsent /\ Returned /\ fallbackCalls = 1

\* C7: the fallback source never fails; an empty concept list is handled
\* as a list holding one placeholder concept.
C7_FallbackNeverFails ==
    pc = "done" /\ fallbackCalls = 1 =>
        /\ result.ok
        /\ (Concepts = <<>> => Len(result.val) = num_questions)

C9_CorrectAnswerOnce ==
    Returned /\ fallbackCalls = 1 =>
        \A i \in 0..(num_questions - 1) :
            LET q == result.val[i + 1]
                expected == <<Concepts[(i % Len(Concepts)) + 1]>> \o
                            [j \in 1..3 |-> Concepts[((i + j) % Len(Concepts)) + 1]]
            IN  q.type = "multiple_choice" =>
                  /\ Occurrences(q.options, q.correct_answer.v) = 1
                  /\ Len(q.options) = 4
                  /\ \A x \in {expected[j] : j \in 1..4} :
                        Occurrences(q.options, x) = Occurrences(expected, x)

----------------------------------------------------------------------------
(* Properties of grading *)

\* the stored quizzes an attempt was graded against
QuizzesOf(attempt) == {q \in quizzes : q.id = attempt.quiz_id}

\* the question at 0-based index i has no answer under its string key
KeyAbsentFor(attempt, i) == ToString(i) \notin DOMAIN attempt.answers.map

\* every stored attempt: an unanswered question is recorded as wrong with
\* the stored correct_answer and explanation, and the score counts answered
\* questions only
C10_UnansweredRecorded ==
    \A k \in 1..Len(quiz_attempts) :
        LET attempt == quiz_attempts[k]
        IN  \A quiz \in QuizzesOf(attempt) :
              /\ Len(attempt.results) = Len(quiz.questions)
              /\ \A i \in 0..(Len(quiz.questions) - 1) :
                    KeyAbsentFor(attempt, i) =>
                        /\ attempt.results[i + 1].correct = FALSE
                        /\ attempt.results[i + 1].correct_answer =
                               quiz.questions[i + 1].correct_answer
                        /\ attempt.results[i + 1].explanation =
                               quiz.questions[i + 1].explanation
              /\ attempt.score =
                     Cardinality({i \in 0..(Len(quiz.questions) - 1) :
                                     /\ ~KeyAbsentFor(attempt, i)
                                     /\ attempt.results[i + 1].correct})
              /\ (Len(quiz.questions) = 3 /\ DOMAIN attempt.answers.map = {"0"} =>
                     attempt.score = IF attempt.results[1].correct THEN 1 ELSE 0)

\* a submission of a dict of answers to a quiz of the user raises nothing:
\* it is answered 201 and its attempt is stored
C10_NoErrorOnMissingKeys ==
    \A u \in Users, q \in RequestIds, a \in AnswerPayloads :
        (SubmitQuizAttempt(u, q, a) /\ a.kind = "dict"
            /\ FindOwned(quizzes, q, u) # {}) =>
                /\ http'.status = 201
                /\ Len(quiz_attempts') = Len(quiz_attempts) + 1

\* C10: in grading, a question whose string index key is absent from the
\* answers is recorded with correct = false and its stored correct_answer
\* and explanation, raises no error and adds nothing to the score; with
\* answers for key "0" only, a 3-question quiz scores 1 or 0 by question 0.
C10_UnansweredIsWrong ==
    []C10_UnansweredRecorded /\ [][C10_NoErrorOnMissingKeys]_vars

\* a 3-question quiz graded with an answer for key "0" only, which is right
C10_Witness ==
    \E k \in 1..Len(quiz_attempts) :
        LET attempt == quiz_attempts[k]
        IN  /\ DOMAIN attempt.answers.map = {"0"}
            /\ attempt.total_questions = 3
            /\ attempt.score = 1
            /\ attempt.results[1].correct
            /\ ~attempt.results[2].correct
            /\ ~attempt.results[3].correct

----------------------------------------------------------------------------
(* Properties of grading *)

\* the stored quiz an attempt was graded against
QuizOf(a) == CHOOSE q \in quizzes : q.id = a.quiz_id

\* number of results with correct = true
CorrectCount(results) ==
    Cardinality({k \in 1..Len(results) : results[k].correct})

\* the figures g of a grading of the questions qs agree with each other
FiguresAgree(g, qs) ==
    /\ g.score = CorrectCount(g.results)
    /\ g.total_questions = Len(qs)
    /\ g.percentage.den > 0
    /\ IF g.total_questions = 0
       THEN g.percentage.num = 0
       ELSE g.percentage.num * g.total_questions
               = 100 * g.score * g.percentage.den

\* C11: in every stored attempt and every success response score is the
\* number of correct results, total_questions the number of questions of
\* the quiz and percentage 100 * score / total_questions; for a quiz without
\* questions the percentage is 0 and the submission does not end in an error.
C11_ScoreTotalPercentage ==
    /\ \A j \in 1..Len(quiz_attempts) :
          FiguresAgree(quiz_attempts[j], QuizOf(quiz_attempts[j]).questions)
    /\ (http.status = 201 /\ quiz_attempts # <<>>) =>
          FiguresAgree(http.grade, QuizOf(quiz_attempts[Len(quiz_attempts)]).questions)
    /\ (\A q \in quizzes : q.questions = <<>>) => http.status # 500

\* C11 witness: an attempt with some but not all answers correct
C11_Witness ==
    \E j \in 1..Len(quiz_attempts) :
        /\ quiz_attempts[j].score >= 1
        /\ quiz_attempts[j].score < quiz_attempts[j].total_questions
        /\ http.status = 201

\* an attempt on a quiz without questions, graded to 0 percent
C11_ZeroQuestions ==
    \E j \in 1..Len(quiz_attempts) :
        /\ quiz_attempts[j].total_questions = 0
        /\ quiz_attempts[j].percentage.num = 0
        /\ quiz_attempts[j].answers.kind = "dict"

\* the answer the attempt a gives to the question at position i (from 1)
AnswerAt(a, i) == DictGet(a.answers.map, ToString(i - 1))

\* the strings of the model that equal "true" when case is ignored
TrueSpellings == {"true", "TRUE", "True"}

\* the boolean a true_false answer stands for
NormBool(x) == IF x.t = "bool" THEN x.v = "True" ELSE x.v \in TrueSpellings

\* the submitted forms of true and of false
TrueForms == {Str("TRUE"), Str("true"), Bool(TRUE)}
FalseForms == {Str("false"), Bool(FALSE)}

\* the attempts a and b answer position i with forms of the same boolean
SameBoolean(a, b, i) ==
    \/ AnswerAt(a, i) \in TrueForms /\ AnswerAt(b, i) \in TrueForms
    \/ AnswerAt(a, i) \in FalseForms /\ AnswerAt(b, i) \in FalseForms

\* the attempts that answered a mapping, with their quiz
DictAttempts == {j \in 1..Len(quiz_attempts) : quiz_attempts[j].answers.kind = "dict"}

\* C12: a true_false question answered with a boolean or a string is correct
\* exactly when the submitted and the stored answer stand for the same
\* boolean, a string standing for true exactly when it is "true" in any case;
\* so "TRUE", "true" and true get one verdict, and "false" and false get one.
C12_BooleanNormalization ==
    \A j \in DictAttempts :
        LET a == quiz_attempts[j]
            qs == QuizOf(a).questions
        IN  \A i \in 1..Len(qs) :
                qs[i].type = "true_false" =>
                    /\ (/\ AnswerAt(a, i).t \in {"bool", "str"}
                        /\ qs[i].correct_answer.t \in {"bool", "str"})
                       => (a.results[i].correct
                              <=> (NormBool(AnswerAt(a, i)) = NormBool(qs[i].correct_answer)))
                    /\ \A k \in DictAttempts :
                          (/\ quiz_attempts[k].quiz_id = a.quiz_id
                           /\ SameBoolean(a, quiz_attempts[k], i))
                          => quiz_attempts[k].results[i].correct = a.results[i].correct

\* C12 witness: "TRUE" and true were both submitted for a true_false
\* question whose stored answer is the string "TRUE", and both are correct
C12_Witness ==
    \E j, k \in DictAttempts :
        LET a == quiz_attempts[j]
            b == quiz_attempts[k]
            qs == QuizOf(a).questions
        IN  \E i \in 1..Len(qs) :
                /\ qs[i].type = "true_false"
                /\ qs[i].correct_answer = Str("TRUE")
                /\ AnswerAt(a, i) = Str("TRUE")
                /\ AnswerAt(b, i) = Bool(TRUE)
                /\ a.results[i].correct
                /\ b.results[i].correct

\* the spellings of one word with other case or blanks around it
ParisSpellings == {"Paris", "paris", " Paris ", " paris "}

\* a string with its blanks trimmed and its case folded
Folded(s) ==
    IF s \in ParisSpellings THEN "paris"
    ELSE IF s \in TrueSpellings THEN "true"
    ELSE IF s = "Rome" THEN "rome"
    ELSE s

\* C13: an answered short_answer question is correct exactly when the
\* submitted and the stored string are equal after trimming and case
\* folding; when one of the two is not a string, plain equality decides.
C13_ShortAnswerFolded ==
    \A j \in DictAttempts :
        LET a == quiz_attempts[j]
            qs == QuizOf(a).questions
        IN  \A i \in 1..Len(qs) :
                (qs[i].type = "short_answer" /\ AnswerAt(a, i) # NoneVal) =>
                    IF AnswerAt(a, i).t = "str" /\ qs[i].correct_answer.t = "str"
                    THEN a.results[i].correct
                            <=> (Folded(AnswerAt(a, i).v) = Folded(qs[i].correct_answer.v))
                    ELSE a.results[i].correct
                            <=> PyEq(AnswerAt(a, i), qs[i].correct_answer)

\* C13 witness: "Paris" and " paris " were both submitted for a
\* short_answer question with the stored answer "Paris"; both are correct
C13_Witness ==
    \E j, k \in DictAttempts :
        LET a == quiz_attempts[j]
            b == quiz_attempts[k]
            qs == QuizOf(a).questions
        IN  \E i \in 1..Len(qs) :
                /\ qs[i].type = "short_answer"
                /\ qs[i].correct_answer = Str("Paris")
                /\ AnswerAt(a, i) = Str("Paris")
                /\ AnswerAt(b, i) = Str(" paris ")
                /\ a.results[i].correct
                /\ b.results[i].correct

\* a short_answer question with a stored number, answered with that number
C13_RawEquality ==
    \E j \in DictAttempts :
        LET a == quiz_attempts[j]
            qs == QuizOf(a).questions
        IN  \E i \in 1..Len(qs) :
                /\ qs[i].type = "short_answer"
                /\ qs[i].correct_answer.t = "int"
                /\ AnswerAt(a, i) = qs[i].correct_answer
                /\ a.results[i].correct

\* the results rs hold one result per question of qs, in question order
ResultsFollow(rs, qs) ==
    /\ Len(rs) = Len(qs)
    /\ \A i \in 1..Len(qs) :
          /\ rs[i].question_id = i - 1
          /\ rs[i].correct_answer = qs[i].correct_answer
          /\ rs[i].explanation = qs[i].explanation

\* C14: the results of a grading hold one result per question, in question
\* order; the result of question i has question_id = i and the stored
\* correct_answer and explanation of question i, answered or not.
C14_OneResultPerQuestion ==
    /\ \A j \in 1..Len(quiz_attempts) :
          ResultsFollow(quiz_attempts[j].results, QuizOf(quiz_attempts[j]).questions)
    /\ (http.status = 201 /\ quiz_attempts # <<>>) =>
          ResultsFollow(http.grade.results,
                        QuizOf(quiz_attempts[Len(quiz_attempts)]).questions)

\* C14 witness: a graded quiz of three questions, the first and the third
\* answered and the second not
C14_Witness ==
    \E j \in DictAttempts :
        LET a == quiz_attempts[j]
        IN  /\ Len(a.results) = 3
            /\ AnswerAt(a, 1) # NoneVal
            /\ AnswerAt(a, 2) = NoneVal
            /\ AnswerAt(a, 3) # NoneVal
            /\ a.results[3].question_id = 2
            /\ http.status = 201

\* the correct flags of the results rs
Flags(rs) == [i \in 1..Len(rs) |-> rs[i].correct]

\* the attempts a and b were graded alike
SameGrading(a, b) ==
    /\ a.score = b.score
    /\ a.percentage = b.percentage
    /\ Flags(a.results) = Flags(b.results)

C16_NonMappingRejected ==
    /\ http.status # 500
    /\ \A j \in 1..Len(quiz_attempts) : quiz_attempts[j].answers.kind = "dict"

\* a submission of a list was answered with an internal server error
C16_ServerError ==
    /\ http.status = 500
    /\ http.error = "Failed to submit quiz"

\* a submission of a list was recorded as an attempt and answered 201
C16_ListRecorded ==
    /\ http.status = 201
    /\ \E j \in 1..Len(quiz_attempts) : quiz_attempts[j].answers = AnswerList

\* this step answers a submission with 201
AnswersSuccess == Len(inflight') < Len(inflight) /\ http'.status = 201

\* the attempt a records the grading that the request req got as its answer
RecordsRequest(a, req, grade) ==
    /\ a.quiz_id = req.quiz_id.n
    /\ a.user_id = req.user_id
    /\ a.answers = req.answers
    /\ a.score = grade.score
    /\ a.total_questions = grade.total_questions
    /\ a.percentage = grade.percentage
    /\ a.results = grade.results

\* what one step does to the attempts and the quizzes
AppendOnlyStep ==
    /\ quizzes' = quizzes
    /\ \A j \in 1..Len(quiz_attempts) :
          j <= Len(quiz_attempts') /\ quiz_attempts'[j] = quiz_attempts[j]
    /\ IF AnswersSuccess
       THEN /\ Len(quiz_attempts') = Len(quiz_attempts) + 1
            /\ \A j \in 1..Len(quiz_attempts) :
                  quiz_attempts[j].id # quiz_attempts'[Len(quiz_attempts')].id
            /\ \E k \in 1..Len(inflight) :
                  /\ inflight' = Without(inflight, k)
                  /\ RecordsRequest(quiz_attempts'[Len(quiz_attempts')],
                                    inflight[k], http'.grade)
       ELSE quiz_attempts' = quiz_attempts

\* C17: every step leaves the stored quizzes and the attempts already stored
\* as they are; a submission answered 201 adds exactly one attempt, which
\* records its own answers and its own grading, and no other step adds one,
\* in every interleaving of the submissions.
C17_AttemptsAppendOnly == [][AppendOnlyStep]_vars

\* C17 witness: two attempts with different scores are recorded for a quiz
\* while a third submission for it is between its read and its insert
C17_Witness ==
    /\ Len(quiz_attempts) = 2
    /\ quiz_attempts[1].quiz_id = quiz_attempts[2].quiz_id
    /\ quiz_attempts[1].score # quiz_attempts[2].score
    /\ Len(inflight) = 1
    /\ inflight[1].quiz.id = quiz_attempts[1].quiz_id
    /\ http.status = 201

----------------------------------------------------------------------------
(* Properties of generate_quiz *)

\* what a step that changes the stored quizzes does
QuizStoredStep ==
    quizzes' # quizzes =>
        /\ generating.active
        /\ pc = "done"
        /\ result.ok
        /\ \E q \in quizzes' \ quizzes :
              /\ quizzes' = quizzes \cup {q}
              /\ q.questions = result.val
              /\ Len(q.questions) = num_questions

\* C18: a quiz is stored only in the step that follows the return of
\* generate_questions, with the sequence it returned, which holds the
\* requested number of questions; a request whose generate_questions raised,
\* or which was abandoned, stores no quiz.
C18_NoPartialQuiz == [][QuizStoredStep]_vars

\* C18 witness: a quiz of two questions is stored while a later request has
\* written one of its two fallback questions
C18_Witness ==
    /\ \E q \in quizzes : Len(q.questions) = 2
    /\ generating.active
    /\ pc = "loop"
    /\ num_questions = 2
    /\ Len(fb_questions) = 1

\* a request whose generate_questions raised was answered 500, no quiz stored
C18_FailedRequest ==
    /\ http.status = 500
    /\ quizzes = {}
    /\ study_materials # {}

----------------------------------------------------------------------------
(* Properties of the two tiers of generate_questions *)

\* C19: within one call of generate_questions the remote source is invoked
\* at most once, the fallback source is invoked at most once, and the
\* fallback runs only after the remote tier was skipped, raised or returned
\* too few questions.
C19_EachTierAtMostOnce ==
    /\ remoteCalls <= 1
    /\ fallbackCalls <= 1
    /\ fallbackCalls = 1 => remoteOutcome \in {"skipped", "raised", "insufficient"}
    /\ remoteOutcome = "skipped" => remoteCalls = 0
    /\ remoteOutcome \in {"raised", "insufficient", "returned"} => remoteCalls = 1
    /\ remoteOutcome = "returned" => fallbackCalls = 0

\* C19 witness: a call ended after its remote tier raised once and its
\* fallback tier ran once
C19_Witness ==
    /\ pc = "done"
    /\ remoteOutcome = "raised"
    /\ remoteCalls = 1
    /\ fallbackCalls = 1
    /\ result.ok

\* positions of the first '[' and of the last ']' of a text, 0 when absent
FirstLB(text) ==
    IF \E i \in 1..Len(text) : text[i] = LB
    THEN CHOOSE i \in 1..Len(text) : text[i] = LB /\ \A j \in 1..(i - 1) : text[j] # LB
    ELSE 0
LastRB(text) ==
    IF \E i \in 1..Len(text) : text[i] = RB
    THEN CHOOSE i \in 1..Len(text) :
             text[i] = RB /\ \A j \in (i + 1)..Len(text) : text[j] # RB
    ELSE 0

\* the text holds a JSON array from its first '[' to its last ']'
HoldsArray(text) ==
    /\ FirstLB(text) > 0
    /\ FirstLB(text) < LastRB(text)
    /\ \A j \in (FirstLB(text) + 1)..(LastRB(text) - 1) : text[j].k = "val"

\* the objects of that array
ObjectsOf(text) ==
    [i \in 1..(LastRB(text) - FirstLB(text) - 1) |-> text[FirstLB(text) + i].q]

\* the object q carries the four fields, and options when multiple_choice
FieldsValid(q) ==
    /\ q.kind = "dict"
    /\ {"type", "question", "correct_answer", "explanation"} \subseteq q.has
    /\ q.type = "multiple_choice" => "options" \in q.has

\* the remote source may return the questions of this answer
Acceptable(resp) ==
    /\ resp.kind = "Text"
    /\ HoldsArray(resp.text)
    /\ \A i \in 1..Len(ObjectsOf(resp.text)) : FieldsValid(ObjectsOf(resp.text)[i])

\* what the step that handles the answer of the endpoint does
RemoteHandledStep ==
    (pc = "responded" /\ pc' # "responded") =>
        /\ remoteOutcome' \in {"returned", "insufficient"} <=> Acceptable(response)
        /\ remoteOutcome' = "raised" <=> ~Acceptable(response)
        /\ remoteOutcome' = "returned" =>
              /\ result'.ok
              /\ \A i \in 1..Len(result'.val) :
                    /\ result'.val[i] = ObjectsOf(response.text)[i]
                    /\ FieldsValid(result'.val[i])

\* C20: the remote source returns questions only when the text holds a JSON
\* array from its first '[' to its last ']' whose objects all carry type,
\* question, correct_answer and explanation, and options when
\* multiple_choice; for every other answer the remote source fails.
C20_RemoteValidation == [][RemoteHandledStep]_vars

\* C20 witness: the remote tier returned the questions of an answer
C20_Witness ==
    /\ pc = "done"
    /\ remoteOutcome = "returned"
    /\ result.ok
    /\ Len(result.val) = 2
    /\ \A i \in 1..Len(result.val) : FieldsValid(result.val[i])

\* an answer whose multiple_choice object lacks options is about to be handled
C20_MissingOptions ==
    /\ pc = "responded"
    /\ response = [kind |-> "Text", text |-> <<LB, Val(RQ_mc_no_options), RB>>]
    /\ ~generate_with_gemini(response).ok

----------------------------------------------------------------------------
(* Properties of extract_key_concepts *)

\* the lower-cased word without punctuation that a token of the texts
\* stands for; "" for a token of punctuation only
WordOf(token) ==
    CASE token = "The" -> "the"
      [] token = "Cell" -> "cell"
      [] token = "cell," -> "cell"
      [] token = "DNA" -> "dna"
      [] token = "!!" -> ""
      [] OTHER -> token

\* the words that may be concepts of the text
Eligible(text) ==
    {WordOf(text[i]) : i \in 1..Len(text)} \ ({"", "dna", "the", "with"})

\* how often, and where first, the word w stands in the text
Frequency(text, w) == Cardinality({i \in 1..Len(text) : WordOf(text[i]) = w})
FirstAt(text, w) ==
    CHOOSE i \in 1..Len(text) :
        WordOf(text[i]) = w /\ \A j \in 1..(i - 1) : WordOf(text[j]) # w

\* the word a ranks before the word b
RanksBefore(text, a, b) ==
    \/ Frequency(text, a) > Frequency(text, b)
    \/ /\ Frequency(text, a) = Frequency(text, b)
       /\ FirstAt(text, a) < FirstAt(text, b)

\* cs is what the extractor is to return for the text and max_concepts
IsExtraction(cs, text, max_concepts) ==
    /\ Len(cs) = Min(max_concepts, Cardinality(Eligible(text)))
    /\ \A i \in 1..Len(cs) :
          /\ cs[i] \in Eligible(text)
          /\ cs[i] \notin stopwords
          /\ Len(cs[i]) > 3
    /\ \A i, j \in 1..Len(cs) : i < j => RanksBefore(text, cs[i], cs[j])
    /\ \A w \in Eligible(text) :
          (\A i \in 1..Len(cs) : cs[i] # w) =>
              \A i \in 1..Len(cs) : RanksBefore(text, cs[i], w)

\* C21: the extractor returns, without error, the distinct lower-cased words
\* of the text that are no stop-word and longer than 3, the most frequent
\* first and of equally frequent ones the one that occurs first, at most
\* max_concepts of them; for the empty text it returns the empty sequence.
C21_ExtractorContract ==
    args.fn = "extract_key_concepts" =>
        \A r \in 1..Len(outs) :
            /\ outs[r].ok
            /\ IsExtraction(outs[r].val, args.text, args.num_concepts)
            /\ args.text = <<>> => outs[r].val = <<>>

\* C21 witness: of three concepts, one twice in the text, the two that rank
\* first were returned: the frequent one, then the first of the other two
C21_Witness ==
    /\ args.text = <<"enzyme", "Cell", "cell,", "mitosis">>
    /\ args.num_concepts = 2
    /\ Len(outs) >= 1
    /\ outs[1].val = <<"cell", "enzyme">>

\* the extractor returned the empty sequence for the empty text
C21_EmptyText ==
    /\ args.fn = "extract_key_concepts"
    /\ args.text = <<>>
    /\ Len(outs) >= 1
    /\ outs[1] = Return(<<>>)

----------------------------------------------------------------------------
(* Properties of _generate_fallback_questions *)

\* the lists xs and ys hold the same elements, each as often
SameMultiset(xs, ys) ==
    /\ Len(xs) = Len(ys)
    /\ \A j \in 1..Len(xs) : Occurrences(xs, xs[j]) = Occurrences(ys, xs[j])

\* the questions p and q differ at most in the order of their options
SameUpToOrder(p, q) ==
    /\ p.type = q.type
    /\ p.correct_answer = q.correct_answer
    /\ p.question = q.question
    /\ p.explanation = q.explanation
    /\ p.has = q.has
    /\ SameMultiset(p.options, q.options)

\* C22: two runs of the fallback source on the same concepts, num_questions
\* and question_types end alike, and give at every index the same type, the
\* same correct_answer and the same multiset of options; only the order of
\* the options of a multiple_choice question may differ.
C22_FallbackRunsAgree ==
    (args.fn = "_generate_fallback_questions" /\ Len(outs) = 2) =>
        /\ outs[1].ok = outs[2].ok
        /\ outs[1].err = outs[2].err
        /\ Len(outs[1].val) = Len(outs[2].val)
        /\ \A i \in 1..Len(outs[1].val) :
              SameUpToOrder(outs[1].val[i], outs[2].val[i])

\* C22 witness: two runs wrote two multiple_choice questions each, and the
\* options of both questions stand in another order in the second run
C22_Witness ==
    /\ args.fn = "_generate_fallback_questions"
    /\ Len(outs) = 2
    /\ outs[1].ok
    /\ Len(outs[1].val) = 2
    /\ \A i \in 1..2 :
          /\ outs[1].val[i].type = "multiple_choice"
          /\ outs[1].val[i].options # outs[2].val[i].options

\* C23: every true_false question the fallback source writes has the
\* boolean true as its correct_answer.
C23_FallbackStatementsTrue ==
    args.fn = "_generate_fallback_questions" =>
        \A r \in 1..Len(outs) :
            \A i \in 1..Len(outs[r].val) :
                outs[r].val[i].type = "true_false" =>
                    outs[r].val[i].correct_answer = Bool(TRUE)

\* C23 witness: a run wrote two true_false questions, both with answer true
C23_Witness ==
    /\ args.fn = "_generate_fallback_questions"
    /\ Len(outs) >= 1
    /\ Len(outs[1].val) = 2
    /\ \A i \in 1..2 :
          /\ outs[1].val[i].type = "true_false"
          /\ outs[1].val[i].correct_answer = Bool(TRUE)

----------------------------------------------------------------------------
(* Properties of the store *)

\* the id names a quiz, but no stored quiz of the user u
Foreign(u, quiz_id) ==
    /\ quiz_id.valid
    /\ ~\E quiz \in quizzes : quiz.id = quiz_id.n /\ quiz.user_id = u

\* this step answers not found and leaves the store as it is
NotFoundStep ==
    /\ http'.status = 404
    /\ study_materials' = study_materials
    /\ quizzes' = quizzes
    /\ quiz_attempts' = quiz_attempts

\* what a step does for a user who names a quiz that is not theirs, and
\* whose attempt a step may record
IsolationStep ==
    /\ \A u \in Users, q \in RequestIds :
          Foreign(u, q) =>
              /\ GetQuiz(u, q) => NotFoundStep
              /\ DeleteQuiz(u, q) => NotFoundStep
              /\ \A a \in AnswerPayloads \ {NoAnswers} :
                    SubmitQuizAttempt(u, q, a) => NotFoundStep
    /\ Len(quiz_attempts') > Len(quiz_attempts) =>
          \E quiz \in quizzes :
              /\ quiz.id = quiz_attempts'[Len(quiz_attempts')].quiz_id
              /\ quiz.user_id = quiz_attempts'[Len(quiz_attempts')].user_id

QuizzesReferToMaterials ==
    \A quiz \in quizzes : \E m \in study_materials : m.id = quiz.material_id

\* every stored attempt references a stored quiz
AttemptsReferToQuizzes ==
    \A j \in 1..Len(quiz_attempts) :
        \E quiz \in quizzes : quiz.id = quiz_attempts[j].quiz_id

\* C26: after any sequence of generate_quiz, submit_quiz_attempt,
\* delete_quiz and delete_material every stored quiz references a stored
\* study material and every stored attempt references a stored quiz.
C26_ReferentialIntegrity ==
    /\ QuizzesReferToMaterials
    /\ AttemptsReferToQuizzes

\* what delete_quiz keeps: it leaves no attempt of the quiz it removed
C26_DeleteQuizKeepsIntegrity ==
    [][(AttemptsReferToQuizzes /\ study_materials' = study_materials)
          => AttemptsReferToQuizzes']_vars

\* the quiz ids that are stored or that a running delete_quiz is removing
LiveQuizIds == {quiz.id : quiz \in quizzes} \cup deleting

\* C25: once a delete_quiz has completed for a quiz, the store holds no
\* attempt with the id of that quiz, however the steps of delete_quiz and
\* of the submissions for the quiz interleave.
C25_NoAttemptAfterDelete ==
    \A j \in 1..Len(quiz_attempts) : quiz_attempts[j].quiz_id \in LiveQuizIds

\* a delete_quiz completed and removed the attempts recorded before it
C25_AttemptsRemoved ==
    /\ quizzes = {}
    /\ deleting = {}
    /\ quiz_attempts = <<>>
    /\ inflight = <<>>
    /\ nextId > 3
    /\ http.status = 200

====
